---- MODULE Spec2Model ----
(***************************************************************************)
(* Usage ledger, cooldown gate and quota gate of bot_pro.py.               *)
(*                                                                         *)
(* The Remote Counter Store is a path-addressed JSON document store        *)
(* (Firebase REST): every GET and PUT of the code is one atomic step at    *)
(* the store, and the local code between two awaits is one step of its     *)
(* own, which reads the clock at most once.  Time is counted in whole      *)
(* seconds; a calendar day and a calendar month are counters that the      *)
(* clock steps Midnight and MonthEnd advance.                              *)
(***************************************************************************)
EXTENDS Integers, Sequences, FiniteSets, TLC

----------------------------------------------------------------------------
(* Bounds of the model.                                                    *)

\* seconds the clock may advance in one run
MaxTime == 2
\* midnights in one run (days are 0..MaxDay, months 0..MaxDay)
MaxDay == 1
\* top-level operations started in one run
MaxOps == 2
\* requests that may run at the same time
MaxProcs == 3
\* admit_and_record requests in one run of SpecReq, calls in one of SpecIso
MaxReqs == 1
\* min_gap arguments are 1..MaxGap
MaxGap == 2
\* count arguments of a direct set_usage call are 0..MaxCount
MaxCount == 1
\* limit arguments of the admin set-limit command are 1..MaxLimit
MaxLimit == 1
\* requests of one user in flight at a time in SpecQuota
MaxInFlight == 2

(* Configuration read from the environment (bot_pro.py lines 38-40); the   *)
(* model runs with COOLDOWN_SECONDS=2, DEFAULT_DAILY_LIMIT=2 and           *)
(* MONTHLY_GLOBAL_CAP=2.                                                   *)
COOLDOWN_SECONDS == 2
DEFAULT_DAILY_LIMIT == 2
DEFAULT_MONTHLY_CAP == 2

\* time.time() at the start of a run: a unix timestamp, far above any min_gap
StartTime == MaxGap + COOLDOWN_SECONDS + 6

Procs == 1 .. MaxProcs
Users == {"u1", "u2"}
Days == 0 .. MaxDay
Months == 0 .. MaxDay
Gaps == 1 .. MaxGap
\* and a min_gap that is more seconds than the clock ever shows
GapsPastClock == Gaps \cup {StartTime + MaxTime + 1}

----------------------------------------------------------------------------
(* JSON values.  A number is an integer; JSON null (a path never written)  *)
(* is Null.  A DailyUsage document is an object with the keys count and    *)
(* last_ts, either of which may be missing; the document with neither key  *)
(* does not exist in the store and reads back as null.                     *)

Null == 0 - 1
NoDoc == [count |-> Null, last_ts |-> Null]
ZeroUsage == [count |-> 0, last_ts |-> 0]

\* a return value of an operation
RetNone == [k |-> "none"]
RetBool(b) == [k |-> "bool", v |-> b]
RetInt(n) == [k |-> "int", v |-> n]
RetUsage(u) == [k |-> "usage", count |-> u.count, last_ts |-> u.last_ts]
RetOutcome(o) == [k |-> "outcome", v |-> o]

VARIABLES
    ready,      \* FIREBASE_READY, fixed at start-up
    now,        \* time.time(), in seconds
    today,      \* the day _today_key() names
    thisMonth,  \* the month _month_key() names
    usage,      \* /usage/{user}/{day}: the DailyUsage documents
    limits,     \* /limits/{user}/daily: the DailyLimitOverride values
    monthly,    \* /usage_images/{month}/total_count: the MonthlyTotal values
    ps,         \* per request: position, call stack and local variables
    started,    \* top-level operations started so far
    prev,       \* history: per request, its previous completed operation
    run         \* history: the day and the store when the first operation
                \* started, and whether no two operations have overlapped

vars == <<ready, now, today, thisMonth, usage, limits, monthly, ps, started, prev, run>>
store == <<usage, limits, monthly>>
clock == <<now, today, thisMonth>>

----------------------------------------------------------------------------
(* HTTP responses.  A GET answers 200 with the stored JSON value, or a     *)
(* non-2xx status, or 200 with a payload that is not JSON, on which        *)
(* Response.json() raises.  A PUT is applied ("ok"), or refused with a     *)
(* non-2xx status ("fail"), or requests.put raises ("raises": the store is *)
(* unreachable); a GET that raises ends the operation as the payload that  *)
(* is not JSON does.                                                       *)

RespOk(body) == [status |-> 200, bad |-> FALSE, body |-> body]
RespNon200(body) == [status |-> 500, bad |-> FALSE, body |-> body]
RespMalformed(body) == [status |-> 200, bad |-> TRUE, body |-> body]

GetResponses(kinds, body, nullBody) ==
    {RespOk(body) : k \in kinds \cap {"ok"}}
        \cup {RespNon200(nullBody) : k \in kinds \cap {"non200"}}
        \cup {RespMalformed(nullBody) : k \in kinds \cap {"malformed"}}

RespGood(resp) == resp.status = 200 /\ ~resp.bad

\* the result of a computation: a value, or an exception raised
Val(v) == [raised |-> FALSE, val |-> v]
Raise == [raised |-> TRUE, val |-> RetNone]

\* data.get(key, default) on a JSON object
DictGet(data, key, default) == IF data[key] = Null THEN default ELSE data[key]

\* lines 107-110: the usage get_usage returns for a response
get_usage_result_no_null_check(resp) ==
    IF resp.status = 200
    THEN IF resp.bad \/ resp.body = NoDoc THEN Raise
         ELSE Val([count |-> DictGet(resp.body, "count", 0),
                   last_ts |-> DictGet(resp.body, "last_ts", 0)])
    ELSE Val(ZeroUsage)

get_usage_result(resp) ==
    IF resp.status = 200
    THEN IF resp.bad THEN Raise
         ELSE IF resp.body # NoDoc
              THEN Val([count |-> DictGet(resp.body, "count", 0),
                        last_ts |-> DictGet(resp.body, "last_ts", 0)])
              ELSE Val(ZeroUsage)
    ELSE Val(ZeroUsage)

\* lines 127 and 137: the value an increment writes back
next_count_same(cur) == cur

next_count_twice(cur) == cur + 2

next_count(cur) == cur + 1

\* lines 124-126, 135-136, 144-146, 153-155: a scalar read with its default
scalar_result(resp, default) ==
    IF resp.status = 200
    THEN IF resp.bad THEN Raise
         ELSE IF resp.body # Null THEN Val(resp.body) ELSE Val(default)
    ELSE Val(default)

\* lines 144-146: the limit get_daily_limit returns for a response
limit_result_default_only(resp) ==
    IF resp.status = 200 /\ resp.bad THEN Raise ELSE Val(DEFAULT_DAILY_LIMIT)

limit_result(resp) == scalar_result(resp, DEFAULT_DAILY_LIMIT)

\* line 244: the cooldown test
cooldown_rejects_at_gap(tnow, last, min_gap) == tnow - last <= min_gap

cooldown_rejects_one_short(tnow, last, min_gap) == tnow - last < min_gap - 1

cooldown_rejects_swapped(tnow, last, min_gap) == last - tnow < min_gap

cooldown_rejects(tnow, last, min_gap) == tnow - last < min_gap

----------------------------------------------------------------------------
(* Requests.  A request runs one top-level operation; ps[p] holds its      *)
(* position pc, the continuations of its callers (stack) and the local     *)
(* variables of the functions it is in.  gets, puts and ok are history:    *)
(* the store requests the operation has issued and whether all of them     *)
(* succeeded.                                                              *)

NoSnap == <<>>

IdleProc ==
    [pc |-> "idle", op |-> "none", stack |-> <<>>, user |-> "none",
     key |-> Null, usage |-> ZeroUsage, tnow |-> Null, gap |-> Null,
     cur |-> Null, curm |-> Null, ts |-> Null,
     c_arg |-> Null, ts_arg |-> Null, lim_arg |-> Null,
     lim |-> Null, cnt |-> Null, tot |-> Null, gen |-> "none",
     ret |-> RetNone, gets |-> 0, puts |-> 0, ok |-> TRUE,
     day0 |-> Null, month0 |-> Null, day1 |-> Null, month1 |-> Null,
     pre |-> NoSnap, n |-> 0]

\* a new top-level operation of user u.  History, when C.hist: the day and
\* the store it starts on, and n, the number of calls in the run of
\* consecutive calls of the same operation for the same user that it extends
\* (last is the request's latest operation)
Fresh(opname, u, last, C) ==
    IF C.hist
    THEN [IdleProc EXCEPT !.op = opname, !.user = u, !.day0 = today,
                          !.month0 = thisMonth, !.pre = <<store>>,
                          !.n = IF last.op = opname /\ last.user = u
                                THEN last.n + 1 ELSE 1]
    ELSE [IdleProc EXCEPT !.op = opname, !.user = u]

AwaitGet(s, label) == [s EXCEPT !.pc = label, !.gets = @ + 1]
AwaitPut(s, label) == [s EXCEPT !.pc = label, !.puts = @ + 1]
Push(s, cont) == [s EXCEPT !.stack = <<cont>> \o @]

\* a function returns v: to its caller's continuation, or the operation ends
Return(s, v) ==
    IF s.stack = <<>>
    THEN [s EXCEPT !.pc = "done", !.ret = v]
    ELSE [s EXCEPT !.pc = Head(s.stack), !.stack = Tail(s.stack), !.ret = v]

\* an exception: no function of the ledger or the gate catches it
Raised(s) == [s EXCEPT !.pc = "raised", !.stack = <<>>, !.ret = RetNone]

Ended(s) == s.pc \in {"done", "raised"}
Running(s) == s.pc \notin {"idle", "done", "raised"}

\* the locals of a finished operation are gone; its result and the requests
\* it issued stay, and with C.hist what the history claims read
Settle(s, C) ==
    IF ~Ended(s) THEN s
    ELSE IF C.hist
    THEN [IdleProc EXCEPT !.pc = s.pc, !.op = s.op, !.user = s.user,
                          !.ret = s.ret, !.gets = s.gets, !.puts = s.puts,
                          !.ok = s.ok, !.gen = s.gen,
                          !.usage = s.usage, !.tnow = s.tnow, !.gap = s.gap,
                          !.lim = s.lim, !.cnt = s.cnt, !.tot = s.tot,
                          !.day0 = s.day0, !.month0 = s.month0,
                          !.day1 = today, !.month1 = thisMonth,
                          !.pre = s.pre, !.n = s.n]
    ELSE [IdleProc EXCEPT !.pc = s.pc, !.op = s.op, !.user = s.user,
                          !.ret = s.ret, !.gets = s.gets, !.puts = s.puts,
                          !.ok = s.ok, !.gen = s.gen]

\* the step of request p ends in s
Commit(p, s, C) ==
    /\ ps' = [ps EXCEPT ![p] = Settle(s, C)]
    /\ prev' = prev

\* a request is free to start an operation; with C.once a request runs only
\* one operation, and the requests are numbered in the order they start
CanCall(p, C) ==
    /\ started < C.budget
    /\ IF C.once
       THEN ps[p].pc = "idle" /\ \A q \in Procs : q < p => ps[q].pc # "idle"
       ELSE ps[p].pc \in {"idle", "done", "raised"}

----------------------------------------------------------------------------
(* The usage ledger, lines 95-167: each function's code up to its first    *)
(* await, as the state it leaves the request in.                           *)

\* lines 102-106
enter_get_usage_unguarded(s) == AwaitGet([s EXCEPT !.key = today], "gu_get")

enter_get_usage(s) ==
    IF ~ready THEN Return(s, RetUsage(ZeroUsage))
    ELSE AwaitGet([s EXCEPT !.key = today], "gu_get")

\* lines 112-116
enter_set_usage(s, count, last_ts) ==
    IF ~ready THEN Return(s, RetNone)
    ELSE AwaitPut([s EXCEPT !.key = today, !.c_arg = count, !.ts_arg = last_ts],
                  "su_put")

\* lines 118-123
enter_increment_usage(s) ==
    IF ~ready THEN Return(s, RetNone)
    ELSE AwaitGet([s EXCEPT !.key = today], "inc_get")

\* lines 139-143
enter_get_daily_limit(s) ==
    IF ~ready THEN Return(s, RetInt(DEFAULT_DAILY_LIMIT))
    ELSE AwaitGet(s, "gl_get")

\* lines 148-152
enter_get_monthly_total(s) ==
    IF ~ready THEN Return(s, RetInt(0))
    ELSE AwaitGet([s EXCEPT !.key = thisMonth], "gm_get")

\* lines 157-161
enter_reset_monthly_total(s) ==
    IF ~ready THEN Return(s, RetNone)
    ELSE AwaitPut([s EXCEPT !.key = thisMonth], "rm_put")

\* lines 163-167
enter_reset_user_daily(s) ==
    IF ~ready THEN Return(s, RetNone)
    ELSE AwaitPut([s EXCEPT !.key = today], "ru_put")

\* lines 240-241: the gate calls get_usage and goes on at line 242
enter_check_and_update_cooldown(s, min_gap) ==
    enter_get_usage(Push([s EXCEPT !.gap = min_gap], "cd_now"))

(* Store writes: the value a PUT leaves at a path.                         *)
PutDoc_every_user(u, d, doc) == [v \in Users |-> [usage[v] EXCEPT ![d] = doc]]

PutDoc(u, d, doc) == [usage EXCEPT ![u][d] = doc]
PutCount(u, d, n) == [usage EXCEPT ![u][d].count = n]
PutLastTs(u, d, t) == [usage EXCEPT ![u][d].last_ts = t]


Mark(s, good) == [s EXCEPT !.ok = @ /\ good]

\* lines 75-77: the awaited PUT returns its response, and the function goes
\* on in state t, or requests.put raises and nothing catches it
PutAnswered(s, o, t) == IF o = "raises" THEN Raised(Mark(s, FALSE)) ELSE t

----------------------------------------------------------------------------
(* Top-level calls.  C is the environment of a specification: the users    *)
(* that call (C.users), the answers the store may give (C.gets, C.puts)    *)
(* the min_gap arguments of a direct call of the gate (C.gaps),            *)
(* whether the history of each operation is kept (C.hist), whether a       *)
(* request runs one operation only (C.once) and the number of operations   *)
(* in a run (C.budget).                                                    *)

Call(p, s, C) ==
    /\ CanCall(p, C)
    /\ started' = started + 1
    /\ UNCHANGED <<ready, clock, store>>
    /\ ps' = [ps EXCEPT ![p] = Settle(s, C)]
    /\ prev' = [prev EXCEPT ![p] = IF C.hist THEN ps[p] ELSE @]
    /\ run' = IF C.hist \/ C.once
              THEN [day |-> IF started = 0 THEN today ELSE run.day,
                    month |-> IF started = 0 THEN thisMonth ELSE run.month,
                    store |-> IF started = 0 THEN <<store>> ELSE run.store,
                    seq |-> run.seq /\ \A q \in Procs : ~Running(ps[q])]
              ELSE run

Call_get_usage(p, C) ==
    \E u \in C.users : Call(p, enter_get_usage(Fresh("get_usage", u, ps[p], C)), C)

Call_set_usage(p, C) ==
    \E u \in C.users, c \in 0 .. MaxCount, t \in {0, now} :
        Call(p, enter_set_usage(Fresh("set_usage", u, ps[p], C), c, t), C)

Call_increment_usage(p, C) ==
    \E u \in C.users :
        Call(p, enter_increment_usage(Fresh("increment_usage", u, ps[p], C)), C)

Call_get_daily_limit(p, C) ==
    \E u \in C.users :
        Call(p, enter_get_daily_limit(Fresh("get_daily_limit", u, ps[p], C)), C)

Call_get_monthly_total(p, C) ==
    \E u \in C.users :
        Call(p, enter_get_monthly_total(Fresh("get_monthly_total", u, ps[p], C)), C)

Call_reset_monthly_total(p, C) ==
    \E u \in C.users :
        Call(p, enter_reset_monthly_total(Fresh("reset_monthly_total", u, ps[p], C)), C)

Call_reset_user_daily(p, C) ==
    \E u \in C.users :
        Call(p, enter_reset_user_daily(Fresh("reset_user_daily", u, ps[p], C)), C)

Call_check_and_update_cooldown(p, C) ==
    \E u \in C.users, g \in C.gaps :
        Call(p, enter_check_and_update_cooldown(
                    Fresh("check_and_update_cooldown", u, ps[p], C), g), C)

----------------------------------------------------------------------------
(* The steps after an await.                                               *)

\* get_usage, lines 106-110: the GET is answered
gu_get(p, C) ==
    LET s == ps[p] IN
    /\ s.pc = "gu_get"
    /\ \E resp \in GetResponses(C.gets, usage[s.user][s.key], NoDoc) :
         LET r == get_usage_result(resp)
             s1 == Mark(s, RespGood(resp))
         IN /\ UNCHANGED <<ready, run, clock, store, started>>
            /\ Commit(p, IF r.raised THEN Raised(s1)
                         ELSE Return(s1, RetUsage(r.val)), C)

\* set_usage, line 116: the PUT of the whole document is answered
su_put(p, C) ==
    LET s == ps[p] IN
    /\ s.pc = "su_put"
    /\ \E o \in C.puts :
         /\ usage' = IF o = "ok"
                     THEN PutDoc(s.user, s.key,
                                 [count |-> s.c_arg, last_ts |-> s.ts_arg])
                     ELSE usage
         /\ UNCHANGED <<ready, run, clock, limits, monthly, started>>
         /\ Commit(p, PutAnswered(s, o, Return(Mark(s, o = "ok"), RetNone)), C)

\* increment_usage, lines 123-127: the GET of count is answered
inc_get(p, C) ==
    LET s == ps[p] IN
    /\ s.pc = "inc_get"
    /\ \E resp \in GetResponses(C.gets, usage[s.user][s.key].count, Null) :
         LET r == scalar_result(resp, 0)
             s1 == Mark(s, RespGood(resp))
         IN /\ UNCHANGED <<ready, run, clock, store, started>>
            /\ Commit(p, IF r.raised THEN Raised(s1)
                         ELSE AwaitPut([s1 EXCEPT !.cur = r.val], "inc_put"), C)

\* increment_usage, line 127: the PUT of count is answered
inc_put(p, C) ==
    LET s == ps[p] IN
    /\ s.pc = "inc_put"
    /\ \E o \in C.puts :
         /\ usage' = IF o = "ok" THEN PutCount(s.user, s.key, next_count(s.cur))
                     ELSE usage
         /\ UNCHANGED <<ready, run, clock, limits, monthly, started>>
         /\ Commit(p, PutAnswered(s, o,
                        [Mark(s, o = "ok") EXCEPT !.pc = "inc_ts_prep"]), C)

\* increment_usage, lines 128-129: the url and the time of the last_ts PUT
inc_ts_prep(p, C) ==
    LET s == ps[p] IN
    /\ s.pc = "inc_ts_prep"
    /\ UNCHANGED <<ready, run, clock, store, started>>
    /\ Commit(p, AwaitPut([s EXCEPT !.key = today, !.ts = now], "inc_ts"), C)

\* increment_usage, line 129: the PUT of last_ts is answered
inc_ts_whole_document(p, C) ==
    LET s == ps[p] IN
    /\ s.pc = "inc_ts"
    /\ \E o \in C.puts :
         /\ usage' = IF o = "ok"
                     THEN PutDoc(s.user, s.key,
                                 [count |-> s.cur, last_ts |-> s.ts])
                     ELSE usage
         /\ UNCHANGED <<ready, run, clock, limits, monthly, started>>
         /\ Commit(p, PutAnswered(s, o,
                        [Mark(s, o = "ok") EXCEPT !.pc = "inc_m_prep"]), C)

inc_ts(p, C) ==
    LET s == ps[p] IN
    /\ s.pc = "inc_ts"
    /\ \E o \in C.puts :
         /\ usage' = IF o = "ok" THEN PutLastTs(s.user, s.key, s.ts)
                     ELSE usage
         /\ UNCHANGED <<ready, run, clock, limits, monthly, started>>
         /\ Commit(p, PutAnswered(s, o,
                        [Mark(s, o = "ok") EXCEPT !.pc = "inc_m_prep"]), C)

\* increment_usage, lines 131-133: the url of the monthly total
inc_m_prep(p, C) ==
    LET s == ps[p] IN
    /\ s.pc = "inc_m_prep"
    /\ UNCHANGED <<ready, run, clock, store, started>>
    /\ Commit(p, AwaitGet([s EXCEPT !.key = thisMonth], "inc_mget"), C)

\* increment_usage, lines 133-137: the GET of the monthly total is answered
inc_mget(p, C) ==
    LET s == ps[p] IN
    /\ s.pc = "inc_mget"
    /\ \E resp \in GetResponses(C.gets, monthly[s.key], Null) :
         LET r == scalar_result(resp, 0)
             s1 == Mark(s, RespGood(resp))
         IN /\ UNCHANGED <<ready, run, clock, store, started>>
            /\ Commit(p, IF r.raised THEN Raised(s1)
                         ELSE AwaitPut([s1 EXCEPT !.curm = r.val], "inc_mput"), C)

\* increment_usage, line 137: the PUT of the monthly total is answered
inc_mput(p, C) ==
    LET s == ps[p] IN
    /\ s.pc = "inc_mput"
    /\ \E o \in C.puts :
         /\ monthly' = IF o = "ok" THEN [monthly EXCEPT ![s.key] = next_count(s.curm)]
                       ELSE monthly
         /\ UNCHANGED <<ready, run, clock, usage, limits, started>>
         /\ Commit(p, PutAnswered(s, o, Return(Mark(s, o = "ok"), RetNone)), C)

\* get_daily_limit, lines 143-146: the GET is answered
gl_get(p, C) ==
    LET s == ps[p] IN
    /\ s.pc = "gl_get"
    /\ \E resp \in GetResponses(C.gets, limits[s.user], Null) :
         LET r == limit_result(resp)
             s1 == Mark(s, RespGood(resp))
         IN /\ UNCHANGED <<ready, run, clock, store, started>>
            /\ Commit(p, IF r.raised THEN Raised(s1)
                         ELSE Return(s1, RetInt(r.val)), C)

\* get_monthly_total, lines 152-155: the GET is answered
gm_get(p, C) ==
    LET s == ps[p] IN
    /\ s.pc = "gm_get"
    /\ \E resp \in GetResponses(C.gets, monthly[s.key], Null) :
         LET r == scalar_result(resp, 0)
             s1 == Mark(s, RespGood(resp))
         IN /\ UNCHANGED <<ready, run, clock, store, started>>
            /\ Commit(p, IF r.raised THEN Raised(s1)
                         ELSE Return(s1, RetInt(r.val)), C)

\* reset_monthly_total, line 161: the PUT is answered
rm_put(p, C) ==
    LET s == ps[p] IN
    /\ s.pc = "rm_put"
    /\ \E o \in C.puts :
         /\ monthly' = IF o = "ok" THEN [monthly EXCEPT ![s.key] = 0]
                       ELSE monthly
         /\ UNCHANGED <<ready, run, clock, usage, limits, started>>
         /\ Commit(p, PutAnswered(s, o, Return(Mark(s, o = "ok"), RetNone)), C)

\* reset_user_daily, line 167: the PUT is answered
ru_put_count_only(p, C) ==
    LET s == ps[p] IN
    /\ s.pc = "ru_put"
    /\ \E o \in C.puts :
         /\ usage' = IF o = "ok" THEN PutCount(s.user, s.key, 0) ELSE usage
         /\ UNCHANGED <<ready, run, clock, limits, monthly, started>>
         /\ Commit(p, PutAnswered(s, o, Return(Mark(s, o = "ok"), RetNone)), C)

ru_put(p, C) ==
    LET s == ps[p] IN
    /\ s.pc = "ru_put"
    /\ \E o \in C.puts :
         /\ usage' = IF o = "ok" THEN PutDoc(s.user, s.key, ZeroUsage)
                     ELSE usage
         /\ UNCHANGED <<ready, run, clock, limits, monthly, started>>
         /\ Commit(p, PutAnswered(s, o, Return(Mark(s, o = "ok"), RetNone)), C)

\* check_and_update_cooldown, lines 241-246: get_usage has returned
cd_now_stamps_rejected(p, C) ==
    LET s == ps[p]
        s1 == [s EXCEPT !.usage = [count |-> s.ret.count,
                                   last_ts |-> s.ret.last_ts],
                        !.tnow = now]
        rejects == cooldown_rejects(s1.tnow, s1.usage.last_ts, s1.gap)
    IN
    /\ s.pc = "cd_now"
    /\ usage' = IF rejects /\ ready THEN PutLastTs(s.user, today, now)
                ELSE usage
    /\ UNCHANGED <<ready, run, clock, limits, monthly, started>>
    /\ Commit(p, IF rejects THEN Return(s1, RetBool(FALSE))
                 ELSE enter_set_usage(Push(s1, "cd_ret"), s1.usage.count,
                                      s1.tnow), C)

cd_now_skips_write(p, C) ==
    LET s == ps[p]
        s1 == [s EXCEPT !.usage = [count |-> s.ret.count,
                                   last_ts |-> s.ret.last_ts],
                        !.tnow = now]
    IN
    /\ s.pc = "cd_now"
    /\ UNCHANGED <<ready, run, clock, store, started>>
    /\ Commit(p, Return(s1, RetBool(~cooldown_rejects(s1.tnow,
                                        s1.usage.last_ts, s1.gap))), C)

cd_now(p, C) ==
    LET s == ps[p]
        s1 == [s EXCEPT !.usage = [count |-> s.ret.count,
                                   last_ts |-> s.ret.last_ts],
                        !.tnow = now]
    IN
    /\ s.pc = "cd_now"
    /\ UNCHANGED <<ready, run, clock, store, started>>
    /\ Commit(p, IF cooldown_rejects(s1.tnow, s1.usage.last_ts, s1.gap)
                 THEN Return(s1, RetBool(FALSE))
                 ELSE enter_set_usage(Push(s1, "cd_ret"), s1.usage.count,
                                      s1.tnow), C)

\* check_and_update_cooldown, line 247: set_usage has returned
cd_ret(p, C) ==
    LET s == ps[p] IN
    /\ s.pc = "cd_ret"
    /\ UNCHANGED <<ready, run, clock, store, started>>
    /\ Commit(p, Return(s, RetBool(TRUE)), C)

----------------------------------------------------------------------------
(* The command layer.  Its handlers are not part of bot_pro.py (lines      *)
(* 249-251 only name them); they are modelled from the design document:    *)
(* the admin command that sets a DailyLimitOverride (sections 4.5 and 6)   *)
(* and admit_and_record (sections 4.4, 5 and 6), which runs the Cooldown   *)
(* Gate, then the Quota Gate, then the generation call, then               *)
(* increment_usage.                                                        *)

\* lines 196-237: vertex_generate_image returns the image bytes, or None on
\* any failure (every exception is caught at line 235)
vertex_generate_image_results == {"image", "none"}

enter_set_limit(s, n) ==
    IF ~ready THEN Return(s, RetNone)
    ELSE AwaitPut([s EXCEPT !.lim_arg = n], "sl_put")

Call_set_limit(p, C) ==
    \E u \in C.users, n \in 1 .. MaxLimit :
        Call(p, enter_set_limit(Fresh("set_limit", u, ps[p], C), n), C)

sl_put(p, C) ==
    LET s == ps[p] IN
    /\ s.pc = "sl_put"
    /\ \E o \in C.puts :
         /\ limits' = IF o = "ok" THEN [limits EXCEPT ![s.user] = s.lim_arg]
                      ELSE limits
         /\ UNCHANGED <<ready, run, clock, usage, monthly, started>>
         /\ Commit(p, PutAnswered(s, o, Return(Mark(s, o = "ok"), RetNone)), C)

\* the Quota Gate's test, section 4.4 (c)
quota_admits(count, daily_limit, monthly_total, monthly_cap) ==
    count < daily_limit /\ monthly_total < monthly_cap

Call_admit_and_record(p, C) ==
    \E u \in C.users :
        Call(p, enter_check_and_update_cooldown(
                    Push(Fresh("admit_and_record", u, ps[p], C), "h_cd"),
                    COOLDOWN_SECONDS), C)

\* the Cooldown Gate has answered; on admission the Quota Gate starts
h_cd(p, C) ==
    LET s == ps[p] IN
    /\ s.pc = "h_cd"
    /\ UNCHANGED <<ready, run, clock, store, started>>
    /\ Commit(p, IF s.ret.v THEN enter_get_daily_limit(Push(s, "h_lim"))
                 ELSE Return(s, RetOutcome("CooldownRejected")), C)

h_lim(p, C) ==
    LET s == ps[p] IN
    /\ s.pc = "h_lim"
    /\ UNCHANGED <<ready, run, clock, store, started>>
    /\ Commit(p, enter_get_usage(Push([s EXCEPT !.lim = s.ret.v], "h_cnt")), C)

h_cnt(p, C) ==
    LET s == ps[p] IN
    /\ s.pc = "h_cnt"
    /\ UNCHANGED <<ready, run, clock, store, started>>
    /\ Commit(p, enter_get_monthly_total(
                     Push([s EXCEPT !.cnt = s.ret.count], "h_tot")), C)

\* the Quota Gate decides; on admission the generation call is made
h_tot(p, C) ==
    LET s == ps[p]
        s1 == [s EXCEPT !.tot = s.ret.v]
    IN
    /\ s.pc = "h_tot"
    /\ UNCHANGED <<ready, run, clock, store, started>>
    /\ Commit(p, IF quota_admits(s1.cnt, s1.lim, s1.tot, DEFAULT_MONTHLY_CAP)
                 THEN [s1 EXCEPT !.pc = "h_gen"]
                 ELSE Return(s1, RetOutcome("QuotaExceeded")), C)

\* the generation call has returned; only its success is counted
h_gen(p, C) ==
    LET s == ps[p] IN
    /\ s.pc = "h_gen"
    /\ \E g \in vertex_generate_image_results :
         /\ UNCHANGED <<ready, run, clock, store, started>>
         /\ Commit(p, IF g = "image"
                      THEN enter_increment_usage(
                               Push([s EXCEPT !.gen = g], "h_inc"))
                      ELSE Return([s EXCEPT !.gen = g],
                                  RetOutcome("GenerationFailed")), C)

h_inc(p, C) ==
    LET s == ps[p] IN
    /\ s.pc = "h_inc"
    /\ UNCHANGED <<ready, run, clock, store, started>>
    /\ Commit(p, Return(s, RetOutcome("Admitted")), C)

----------------------------------------------------------------------------
(* The clock.                                                              *)

Tick ==
    /\ now < StartTime + MaxTime
    /\ now' = now + 1
    /\ UNCHANGED <<ready, run, today, thisMonth, store, ps, started, prev>>

\* a second passes and a new day of the same month begins
Midnight ==
    /\ now < StartTime + MaxTime
    /\ today < MaxDay
    /\ now' = now + 1
    /\ today' = today + 1
    /\ UNCHANGED <<ready, run, thisMonth, store, ps, started, prev>>

\* a second passes and the first day of the next month begins
MonthEnd ==
    /\ now < StartTime + MaxTime
    /\ today < MaxDay
    /\ now' = now + 1
    /\ today' = today + 1
    /\ thisMonth' = thisMonth + 1
    /\ UNCHANGED <<ready, run, store, ps, started, prev>>

----------------------------------------------------------------------------
(* Initial states.  A run starts on day 0 of month 0 with every request    *)
(* idle.  InitEmpty is the store of a fresh deployment.  The other initial *)
(* stores hold, for user u1 today, one of the documents earlier operations *)
(* leave behind: none; count alone (an increment_usage whose last_ts PUT   *)
(* failed); {0, 0.0} (reset_user_daily); count and a recent last_ts (an    *)
(* admitted request).                                                      *)

InitDocs ==
    {NoDoc,
     [count |-> 1, last_ts |-> Null],
     ZeroUsage,
     [count |-> 1, last_ts |-> StartTime - 1]}

InitTotals == {Null, 0, 1}

InitLimits == {Null, 1}

InitRest ==
    /\ ready \in BOOLEAN
    /\ now = StartTime
    /\ today = 0
    /\ thisMonth = 0
    /\ ps = [p \in Procs |-> IdleProc]
    /\ started = 0
    /\ prev = [p \in Procs |-> IdleProc]
    /\ run = [day |-> 0, month |-> 0, store |-> <<>>, seq |-> TRUE]

InitEmpty ==
    /\ usage = [u \in Users |-> [d \in Days |-> NoDoc]]
    /\ limits = [u \in Users |-> Null]
    /\ monthly = [m \in Months |-> Null]

InitUsed(docs, overrides, totals) ==
    /\ \E doc \in docs :
         usage = [u \in Users |-> [d \in Days |->
                     IF u = "u1" /\ d = 0 THEN doc ELSE NoDoc]]
    /\ \E l0 \in overrides :
         limits = [u \in Users |-> IF u = "u1" THEN l0 ELSE Null]
    /\ \E m0 \in totals :
         monthly = [m \in Months |-> IF m = 0 THEN m0 ELSE Null]

Init == InitRest /\ InitEmpty

AllGets == {"ok", "non200", "malformed"}
AllPuts == {"ok", "fail", "raises"}

----------------------------------------------------------------------------
(* Spec: every operation of the ledger, the gate and the command layer,    *)
(* one request at a time, on a store that may fail any request.            *)

Env ==
    [users |-> Users, gets |-> AllGets, puts |-> AllPuts, hist |-> FALSE,
     once |-> FALSE, budget |-> MaxOps,
     gaps |-> GapsPastClock]

Next ==
    \/ Call_get_usage(1, Env)
    \/ Call_set_usage(1, Env)
    \/ Call_increment_usage(1, Env)
    \/ Call_get_daily_limit(1, Env)
    \/ Call_get_monthly_total(1, Env)
    \/ Call_reset_monthly_total(1, Env)
    \/ Call_reset_user_daily(1, Env)
    \/ Call_check_and_update_cooldown(1, Env)
    \/ Call_set_limit(1, Env)
    \/ Call_admit_and_record(1, Env)
    \/ gu_get(1, Env)
    \/ su_put(1, Env)
    \/ inc_get(1, Env)
    \/ inc_put(1, Env)
    \/ inc_ts_prep(1, Env)
    \/ inc_ts(1, Env)
    \/ inc_m_prep(1, Env)
    \/ inc_mget(1, Env)
    \/ inc_mput(1, Env)
    \/ gl_get(1, Env)
    \/ gm_get(1, Env)
    \/ rm_put(1, Env)
    \/ ru_put(1, Env)
    \/ cd_now(1, Env)
    \/ cd_ret(1, Env)
    \/ sl_put(1, Env)
    \/ h_cd(1, Env)
    \/ h_lim(1, Env)
    \/ h_cnt(1, Env)
    \/ h_tot(1, Env)
    \/ h_gen(1, Env)
    \/ h_inc(1, Env)
    \/ Tick
    \/ Midnight
    \/ MonthEnd

Spec == Init /\ [][Next]_vars

----------------------------------------------------------------------------
(* SpecSeq: the Cooldown Gate, reset_user_daily and get_usage called one   *)
(* after the other for one user, with the history of the previous call.    *)

EnvSeq ==
    [users |-> {"u1"}, gets |-> AllGets, puts |-> AllPuts, hist |-> TRUE,
     once |-> FALSE, budget |-> MaxOps,
     gaps |-> GapsPastClock]

InitSeq == InitRest /\ InitUsed(InitDocs, {Null}, {Null})

NextSeq ==
    \/ Call_get_usage(1, EnvSeq)
    \/ Call_reset_user_daily(1, EnvSeq)
    \/ Call_check_and_update_cooldown(1, EnvSeq)
    \/ gu_get(1, EnvSeq)
    \/ su_put(1, EnvSeq)
    \/ ru_put(1, EnvSeq)
    \/ cd_now(1, EnvSeq)
    \/ cd_ret(1, EnvSeq)
    \/ Tick
    \/ Midnight

SpecSeq == InitSeq /\ [][NextSeq]_vars

----------------------------------------------------------------------------
(* SpecInc: increment_usage calls for one user on a store that answers     *)
(* every request, each request making one call, the calls overlapping in   *)
(* any way.                                                                *)

EnvInc ==
    [users |-> {"u1"}, gets |-> {"ok"}, puts |-> {"ok"}, hist |-> FALSE,
     once |-> TRUE, budget |-> MaxProcs,
     gaps |-> Gaps]

InitInc == InitRest /\ ready /\ InitUsed(InitDocs \ {[count |-> 1, last_ts |-> Null]}, {Null}, {Null, 1})

NextInc ==
    \/ \E p \in Procs : Call_increment_usage(p, EnvInc)
    \/ \E p \in Procs : inc_get(p, EnvInc)
    \/ \E p \in Procs : inc_put(p, EnvInc)
    \/ \E p \in Procs : inc_ts_prep(p, EnvInc)
    \/ \E p \in Procs : inc_ts(p, EnvInc)
    \/ \E p \in Procs : inc_m_prep(p, EnvInc)
    \/ \E p \in Procs : inc_mget(p, EnvInc)
    \/ \E p \in Procs : inc_mput(p, EnvInc)
    \/ Midnight
    \/ MonthEnd

SpecInc == InitInc /\ [][NextInc]_vars

----------------------------------------------------------------------------
(* SpecReq: admit_and_record requests of one user, one at a time, on a     *)
(* store that may fail any request.                                        *)

EnvReq ==
    [users |-> {"u1"}, gets |-> AllGets, puts |-> AllPuts, hist |-> TRUE,
     once |-> FALSE, budget |-> MaxReqs,
     gaps |-> Gaps]

InitReq ==
    InitRest /\ InitUsed(InitDocs, InitLimits,
                         InitTotals \cup {DEFAULT_MONTHLY_CAP})

NextReq ==
    \/ Call_admit_and_record(1, EnvReq)
    \/ gu_get(1, EnvReq)
    \/ su_put(1, EnvReq)
    \/ inc_get(1, EnvReq)
    \/ inc_put(1, EnvReq)
    \/ inc_ts_prep(1, EnvReq)
    \/ inc_ts(1, EnvReq)
    \/ inc_m_prep(1, EnvReq)
    \/ inc_mget(1, EnvReq)
    \/ inc_mput(1, EnvReq)
    \/ gl_get(1, EnvReq)
    \/ gm_get(1, EnvReq)
    \/ cd_now(1, EnvReq)
    \/ cd_ret(1, EnvReq)
    \/ h_cd(1, EnvReq)
    \/ h_lim(1, EnvReq)
    \/ h_cnt(1, EnvReq)
    \/ h_tot(1, EnvReq)
    \/ h_gen(1, EnvReq)
    \/ h_inc(1, EnvReq)
    \/ Tick
    \/ Midnight
    \/ MonthEnd

SpecReq == InitReq /\ [][NextReq]_vars

----------------------------------------------------------------------------
(* SpecOff: every operation, one at a time, in a process that started      *)
(* without a configured store. No operation reaches a store request, so    *)
(* only the calls and the steps between the awaits can happen.             *)

EnvOff ==
    [users |-> Users, gets |-> AllGets, puts |-> AllPuts, hist |-> FALSE,
     once |-> FALSE, budget |-> MaxOps,
     gaps |-> Gaps]

InitOff == InitRest /\ ~ready /\ InitEmpty

NextOff ==
    \/ Call_get_usage(1, EnvOff)
    \/ Call_set_usage(1, EnvOff)
    \/ Call_increment_usage(1, EnvOff)
    \/ Call_get_daily_limit(1, EnvOff)
    \/ Call_get_monthly_total(1, EnvOff)
    \/ Call_reset_monthly_total(1, EnvOff)
    \/ Call_reset_user_daily(1, EnvOff)
    \/ Call_check_and_update_cooldown(1, EnvOff)
    \/ Call_admit_and_record(1, EnvOff)
    \/ cd_now(1, EnvOff)
    \/ cd_ret(1, EnvOff)
    \/ h_cd(1, EnvOff)
    \/ h_lim(1, EnvOff)
    \/ h_cnt(1, EnvOff)
    \/ h_tot(1, EnvOff)
    \/ h_gen(1, EnvOff)
    \/ h_inc(1, EnvOff)
    \/ Tick
    \/ Midnight
    \/ MonthEnd

SpecOff == InitOff /\ [][NextOff]_vars

----------------------------------------------------------------------------
(* What the claims read.                                                   *)

\* the daily count, the last request time and the monthly total a stored
\* value stands for; the daily limit in force for an override
Count(doc) == IF doc.count = Null THEN 0 ELSE doc.count
Last(doc) == IF doc.last_ts = Null THEN 0 ELSE doc.last_ts
Total(v) == IF v = Null THEN 0 ELSE v
LimitOf(v) == IF v = Null THEN DEFAULT_DAILY_LIMIT ELSE v

\* the store an operation started on, and the user's document of that day
PreStore(s) == s.pre[1]
PreDoc(s) == PreStore(s)[1][s.user][s.day0]

Quiescent == \A p \in Procs : ~Running(ps[p])

IsCooldown(s) == s.op = "check_and_update_cooldown"

----------------------------------------------------------------------------
(* C1, under SpecSeq.                                                      *)

\* two consecutive calls of the gate for one user with one min_gap, the
\* stored last_ts being at least min_gap in the past at the first call
C1_TwoCalls ==
    /\ ready
    /\ IsCooldown(prev[1]) /\ IsCooldown(ps[1])
    /\ prev[1].pc = "done" /\ ps[1].pc = "done"
    /\ prev[1].user = ps[1].user
    /\ prev[1].gap = ps[1].gap
    /\ prev[1].tnow - Last(PreDoc(prev[1])) >= prev[1].gap

C1_Results ==
    /\ prev[1].ret = RetBool(TRUE)
    /\ ps[1].ret = RetBool(ps[1].tnow - prev[1].tnow >= ps[1].gap)

\* C1 as stated: two calls of check_and_update_cooldown for a user, less
\* than min_gap seconds apart, return (admit, reject), and at least min_gap
\* seconds apart (admit, admit).
C1_Original == C1_TwoCalls => C1_Results

\* C1 amended: the same, when every store request of the two calls succeeds
\* and no midnight falls between the start of the first call and the end
\* of the second.
C1_CooldownPair ==
    (/\ C1_TwoCalls
     /\ prev[1].ok /\ ps[1].ok
     /\ prev[1].day0 = ps[1].day1) => C1_Results

C1_Witness ==
    /\ C1_TwoCalls
    /\ prev[1].ok /\ ps[1].ok
    /\ prev[1].day0 = ps[1].day1
    /\ ps[1].gap = MaxGap
    /\ ps[1].tnow - prev[1].tnow = MaxGap - 1
    /\ ps[1].ret = RetBool(FALSE)

----------------------------------------------------------------------------
(* C5, C6 and C9, under SpecSeq.                                           *)

C5_Case ==
    /\ ready
    /\ prev[1].op = "reset_user_daily" /\ prev[1].pc = "done" /\ prev[1].ok
    /\ ps[1].op = "get_usage" /\ Ended(ps[1]) /\ ps[1].ok
    /\ prev[1].user = ps[1].user

\* C5: reset_user_daily(user) followed by get_usage(user), both answered by
\* the store, returns {count: 0, last_ts: 0.0} whatever the document was.
C5_ResetThenGet ==
    C5_Case => ps[1].pc = "done" /\ ps[1].ret = RetUsage(ZeroUsage)

C5_Witness ==
    /\ C5_Case
    /\ PreDoc(prev[1]) = [count |-> 1, last_ts |-> StartTime - 1]
    /\ ps[1].gets = 1
    /\ ps[1].ret = RetUsage(ZeroUsage)

C6_Case ==
    /\ ps[1].op = "get_usage" /\ Ended(ps[1]) /\ ps[1].ok
    /\ PreDoc(ps[1]) = NoDoc

\* C6: get_usage for a user with no DailyUsage document for today returns
\* {count: 0, last_ts: 0.0} and writes nothing to the store.
C6_AbsentReadsZero ==
    C6_Case =>
        /\ ps[1].pc = "done"
        /\ ps[1].ret = RetUsage(ZeroUsage)
        /\ ps[1].puts = 0
        /\ store = PreStore(ps[1])

C6_Witness == C6_Case /\ ready /\ ps[1].gets = 1 /\ ps[1].pc = "done"

C9_Case ==
    /\ IsCooldown(ps[1])
    /\ ps[1].pc = "done"
    /\ ps[1].ret = RetBool(FALSE)

\* C9: a call of check_and_update_cooldown that rejects issues no PUT, and
\* the store (every DailyUsage, limit override and MonthlyTotal) is after
\* the call what it was before it.
C9_RejectWritesNothing ==
    C9_Case => ps[1].puts = 0 /\ store = PreStore(ps[1])

C9_Witness == C9_Case /\ ps[1].gets = 1 /\ Count(PreDoc(ps[1])) = 1

----------------------------------------------------------------------------
(* C2 and C3, under SpecInc: N = started calls of increment_usage for one  *)
(* user on a store that answers every request.                             *)

\* the day, the month and the store the run of calls started on
RunDay == IF started = 0 THEN today ELSE run.day
RunMonth == IF started = 0 THEN thisMonth ELSE run.month
RunStore == IF started = 0 THEN store ELSE run.store[1]
BaseCount == Count(RunStore[1]["u1"][RunDay])
BaseTotal == Total(RunStore[3][RunMonth])
SameDayAndMonth == today = RunDay /\ thisMonth = RunMonth

C2_Case == Quiescent /\ run.seq /\ BaseCount = 0

C2_Result ==
    /\ Count(usage["u1"][today]) = started
    /\ Total(monthly[thisMonth]) = BaseTotal + started

\* C2 as stated: after N sequential calls of increment_usage for a user on
\* a fresh day, the daily count is N and the monthly total is its starting
\* value plus N.
C2_Original == C2_Case => C2_Result

\* C2 amended: the same, when no midnight and no month end falls between the
\* first call and the reading of the counters.
C2_SequentialIncrements == (C2_Case /\ SameDayAndMonth) => C2_Result

C2_Witness ==
    /\ C2_Case /\ SameDayAndMonth
    /\ started = MaxProcs
    /\ BaseTotal = 1
    /\ Count(usage["u1"][today]) = MaxProcs

C3_Case == Quiescent /\ started >= 1

C3_Result ==
    /\ Count(usage["u1"][today]) \in BaseCount + 1 .. BaseCount + started
    /\ Total(monthly[thisMonth]) \in BaseTotal + 1 .. BaseTotal + started

\* C3 as stated: after N >= 1 calls of increment_usage for a user, possibly
\* concurrent, from daily count c and monthly total m, the daily count lies
\* in c+1 .. c+N and the monthly total in m+1 .. m+N.
C3_Original == C3_Case => C3_Result

\* C3 amended: the same, when no midnight and no month end falls between the
\* first call and the reading of the counters.
C3_ConcurrentIncrements == (C3_Case /\ SameDayAndMonth) => C3_Result

\* a lost update: every call has finished and the counters moved by one
C3_Witness ==
    /\ C3_Case /\ SameDayAndMonth
    /\ started = MaxProcs
    /\ ~run.seq
    /\ Count(usage["u1"][today]) = BaseCount + 1
    /\ Total(monthly[thisMonth]) = BaseTotal + 1

----------------------------------------------------------------------------
(* C7, under Spec, and C8, under SpecOff.                                   *)

LedgerReads ==
    {"get_usage", "get_daily_limit", "get_monthly_total", "increment_usage"}

\* C7 as stated: a ledger read whose GET fails (a non-2xx response or a
\* malformed payload) goes on with its default and never ends in an
\* exception.
C7_ReadFailureNeverRaises ==
    \A p \in Procs : ps[p].op \in LedgerReads => ps[p].pc # "raised"

\* what each operation returns when the store is not configured
C8_Default(s) ==
    CASE s.op = "get_usage" -> s.ret = RetUsage(ZeroUsage)
      [] s.op = "get_daily_limit" -> s.ret = RetInt(DEFAULT_DAILY_LIMIT)
      [] s.op = "get_monthly_total" -> s.ret = RetInt(0)
      [] s.op = "check_and_update_cooldown" -> s.ret = RetBool(TRUE)
      [] s.op = "admit_and_record" ->
            s.ret \in {RetOutcome("Admitted"), RetOutcome("GenerationFailed")}
      [] OTHER -> s.ret = RetNone

----------------------------------------------------------------------------
(* C4 and C10, under SpecReq: one request of the command layer.            *)

IsRequest(s) == s.op = "admit_and_record"
QuotaAdmitted(s) == IsRequest(s) /\ (s.pc = "h_gen" \/ s.gen # "none")
QuotaRejected(s) ==
    IsRequest(s) /\ s.pc = "done" /\ s.ret = RetOutcome("QuotaExceeded")

\* every store request of the request so far succeeded, and no midnight or
\* month end has passed since it started
C4_Undisturbed(s) ==
    ready /\ s.ok /\ today = s.day0 /\ thisMonth = s.month0

C4_StoredAdmits(s) ==
    /\ Count(usage[s.user][today]) < LimitOf(limits[s.user])
    /\ Total(monthly[thisMonth]) < DEFAULT_MONTHLY_CAP

\* the Quota Gate of the request has decided
C4_Decided(s) == QuotaAdmitted(s) \/ QuotaRejected(s)

\* the values get_usage, get_daily_limit and get_monthly_total can have
\* returned to the request: what the store held for the user when the
\* request started, or the default of a read that was not answered with a
\* value (the request's own gate write keeps or zeroes the count, and a new
\* day or month starts from the defaults)
C4_ValuesRead(s) ==
    /\ s.cnt \in {Count(PreDoc(s)), 0}
    /\ s.lim \in {LimitOf(PreStore(s)[2][s.user]), DEFAULT_DAILY_LIMIT}
    /\ s.tot \in {Total(PreStore(s)[3][s.month0]), 0}

\* C4: the Quota Gate lets a request through exactly when the count it read
\* is below the daily limit it read and the monthly total it read is below
\* the cap (at count = limit, and at total = cap, it answers
\* QuotaExceeded); the values read are the stored ones or the defaults, and
\* when the reads were answered by the store within one day they are the
\* stored count, the user's override or else the default limit, and the
\* stored total.
C4_QuotaGate ==
    LET s == ps[1] IN
    /\ C4_Decided(s) => C4_ValuesRead(s)
    /\ QuotaAdmitted(s) => s.cnt < s.lim /\ s.tot < DEFAULT_MONTHLY_CAP
    /\ QuotaRejected(s) => ~(s.cnt < s.lim /\ s.tot < DEFAULT_MONTHLY_CAP)
    /\ (s.pc = "h_gen" /\ C4_Undisturbed(s)) => C4_StoredAdmits(s)
    /\ (QuotaRejected(s) /\ C4_Undisturbed(s)) => ~C4_StoredAdmits(s)

\* rejected at the monthly cap, the count being below the daily limit, which
\* is the user's override
C4_Witness ==
    LET s == ps[1] IN
    /\ QuotaRejected(s) /\ C4_Undisturbed(s)
    /\ limits[s.user] = MaxLimit
    /\ s.cnt < s.lim
    /\ s.tot = DEFAULT_MONTHLY_CAP
    /\ monthly[thisMonth] = DEFAULT_MONTHLY_CAP

IncrementSteps ==
    {"inc_get", "inc_put", "inc_ts_prep", "inc_ts", "inc_m_prep", "inc_mget",
     "inc_mput", "h_inc"}

\* C10 as stated: within one request increment_usage runs only after the
\* generation call returned an image, and a request whose generation call
\* failed leaves every daily count of the user and every monthly total as
\* they were when the request started.
C10_FailedGenerationKeepsCounts ==
    LET s == ps[1] IN
    /\ (IsRequest(s) /\ s.pc \in IncrementSteps) => s.gen = "image"
    /\ (IsRequest(s) /\ s.pc = "done"
          /\ s.ret = RetOutcome("GenerationFailed")) =>
            /\ \A d \in Days :
                 Count(usage[s.user][d]) = Count(PreStore(s)[1][s.user][d])
            /\ \A m \in Months : Total(monthly[m]) = Total(PreStore(s)[3][m])

----------------------------------------------------------------------------
(* SpecWait: the eight operations of the ledger and the gate, one at a     *)
(* time, on a store that answers every request it answers correctly but    *)
(* may take any time, or for ever, to answer.  requests.get and            *)
(* requests.put are called without a timeout argument (lines 71-79), so    *)
(* no step of the code ends a wait: a pending request is ended by its      *)
(* answer only.  The event loop runs the code between two awaits as soon   *)
(* as it can run, which is the fairness of SpecWait; nothing obliges the   *)
(* store to answer.                                                        *)

EnvWait ==
    [users |-> {"u1"}, gets |-> {"ok"}, puts |-> {"ok"}, hist |-> FALSE,
     once |-> FALSE, budget |-> MaxOps,
     gaps |-> Gaps]

InitWait == InitRest /\ InitUsed(InitDocs, {Null}, {Null})

\* the code between two awaits
LocalWait ==
    \/ inc_ts_prep(1, EnvWait)
    \/ inc_m_prep(1, EnvWait)
    \/ cd_now(1, EnvWait)
    \/ cd_ret(1, EnvWait)

NextWait ==
    \/ Call_get_usage(1, EnvWait)
    \/ Call_set_usage(1, EnvWait)
    \/ Call_increment_usage(1, EnvWait)
    \/ Call_get_daily_limit(1, EnvWait)
    \/ Call_get_monthly_total(1, EnvWait)
    \/ Call_reset_monthly_total(1, EnvWait)
    \/ Call_reset_user_daily(1, EnvWait)
    \/ Call_check_and_update_cooldown(1, EnvWait)
    \/ gu_get(1, EnvWait)
    \/ su_put(1, EnvWait)
    \/ inc_get(1, EnvWait)
    \/ inc_put(1, EnvWait)
    \/ inc_ts(1, EnvWait)
    \/ inc_mget(1, EnvWait)
    \/ inc_mput(1, EnvWait)
    \/ gl_get(1, EnvWait)
    \/ gm_get(1, EnvWait)
    \/ rm_put(1, EnvWait)
    \/ ru_put(1, EnvWait)
    \/ LocalWait
    \/ Tick
    \/ Midnight

SpecWait == InitWait /\ [][NextWait]_vars /\ WF_vars(LocalWait)

----------------------------------------------------------------------------
(* C11, under SpecWait.                                                    *)

\* C11 as stated: every operation of the ledger and the gate that has
\* started eventually returns (or raises), also when the store never
\* answers a request of it.
C11_EveryCallReturns == Running(ps[1]) ~> Ended(ps[1])

----------------------------------------------------------------------------
(* SpecRace: MaxOps requests of one user running at the same time, each    *)
(* one call of the gate, of increment_usage or of a reset, on a store      *)
(* that answers every request; the steps of the requests interleave in     *)
(* any order.                                                              *)

EnvRace ==
    [users |-> {"u1"}, gets |-> {"ok"}, puts |-> {"ok"}, hist |-> TRUE,
     once |-> TRUE, budget |-> MaxOps,
     gaps |-> Gaps]

InitRace == InitRest /\ ready /\ InitUsed(InitDocs, {Null}, InitTotals)

NextRace ==
    \/ \E p \in Procs :
         \/ Call_check_and_update_cooldown(p, EnvRace)
         \/ Call_increment_usage(p, EnvRace)
         \/ Call_reset_user_daily(p, EnvRace)
         \/ Call_reset_monthly_total(p, EnvRace)
         \/ gu_get(p, EnvRace)
         \/ su_put(p, EnvRace)
         \/ cd_now(p, EnvRace)
         \/ cd_ret(p, EnvRace)
         \/ inc_get(p, EnvRace)
         \/ inc_put(p, EnvRace)
         \/ inc_ts_prep(p, EnvRace)
         \/ inc_ts(p, EnvRace)
         \/ inc_m_prep(p, EnvRace)
         \/ inc_mget(p, EnvRace)
         \/ inc_mput(p, EnvRace)
         \/ ru_put(p, EnvRace)
         \/ rm_put(p, EnvRace)
    \/ Tick

SpecRace == InitRace /\ [][NextRace]_vars

----------------------------------------------------------------------------
(* C12, under SpecRace.                                                    *)

\* request p takes the step that answers the PUT of the gate's set_usage
GateWrites(p) ==
    /\ IsCooldown(ps[p])
    /\ ps[p].pc = "su_put"
    /\ ps'[p].pc # "su_put"

\* C12 as stated: the write of the Cooldown Gate leaves the stored daily
\* count of the document it writes as it was immediately before the write,
\* whatever other requests of the user have done since the gate read it.
C12_GateKeepsCount ==
    [][\A p \in Procs :
         GateWrites(p) =>
             Count(usage'[ps[p].user][ps[p].key])
                 = Count(usage[ps[p].user][ps[p].key])]_vars

----------------------------------------------------------------------------
(* C19, under SpecRace.                                                    *)

\* the calls of increment_usage that have issued at least n PUTs: the PUT
\* of the count is the first, the PUT of the monthly total the third
IncrementsThatPut(n) ==
    {p \in Procs : ps[p].op = "increment_usage" /\ ps[p].puts >= n}

ResetDone(opname) ==
    \E p \in Procs : ps[p].op = opname /\ ps[p].pc = "done"

\* C19 as stated, in its consequence for the calls that wrote at all: once
\* reset_user_daily has completed and every call has finished, the stored
\* daily count is at most the number of increment_usage calls that wrote
\* a count; and once reset_monthly_total has completed and every call has
\* finished, the monthly total is at most the number of increment_usage
\* calls that wrote a total.
C19_ResetNotUndone ==
    /\ (Quiescent /\ ResetDone("reset_user_daily")) =>
           Count(usage["u1"][today]) <= Cardinality(IncrementsThatPut(1))
    /\ (Quiescent /\ ResetDone("reset_monthly_total")) =>
           Total(monthly[thisMonth]) <= Cardinality(IncrementsThatPut(3))

----------------------------------------------------------------------------
(* SpecMix: MaxOps requests of one user running at the same time, from an  *)
(* empty store, each one call of the gate, of increment_usage or of a      *)
(* reset, on a store that may fail any request, over midnights and month   *)
(* ends.                                                                   *)

EnvMix ==
    [users |-> {"u1"}, gets |-> AllGets, puts |-> AllPuts, hist |-> TRUE,
     once |-> TRUE, budget |-> MaxOps,
     gaps |-> Gaps]

InitMix == InitRest /\ ready /\ InitEmpty

NextMix ==
    \/ \E p \in Procs :
         \/ Call_check_and_update_cooldown(p, EnvMix)
         \/ Call_increment_usage(p, EnvMix)
         \/ Call_reset_user_daily(p, EnvMix)
         \/ Call_reset_monthly_total(p, EnvMix)
         \/ gu_get(p, EnvMix)
         \/ su_put(p, EnvMix)
         \/ cd_now(p, EnvMix)
         \/ cd_ret(p, EnvMix)
         \/ inc_get(p, EnvMix)
         \/ inc_put(p, EnvMix)
         \/ inc_ts_prep(p, EnvMix)
         \/ inc_ts(p, EnvMix)
         \/ inc_m_prep(p, EnvMix)
         \/ inc_mget(p, EnvMix)
         \/ inc_mput(p, EnvMix)
         \/ ru_put(p, EnvMix)
         \/ rm_put(p, EnvMix)
    \/ Tick
    \/ Midnight
    \/ MonthEnd

SpecMix == InitMix /\ [][NextMix]_vars

----------------------------------------------------------------------------
(* C18, under SpecMix.                                                     *)

IncrementsStartedOn(d) ==
    {p \in Procs : ps[p].op = "increment_usage" /\ ps[p].day0 = d}

IncrementsStartedBy(m) ==
    {p \in Procs : ps[p].op = "increment_usage" /\ ps[p].month0 <= m}

\* C18 as stated: in every reachable state the stored daily count of each
\* day is at most the number of increment_usage calls of the user started
\* on that day, and the stored total of each month is at most the number of
\* increment_usage calls started by the end of that month.
C18_NeverOverCounts ==
    /\ \A d \in Days :
         Count(usage["u1"][d]) <= Cardinality(IncrementsStartedOn(d))
    /\ \A m \in Months :
         Total(monthly[m]) <= Cardinality(IncrementsStartedBy(m))

----------------------------------------------------------------------------
(* SpecGate: MaxOps requests of one user, each one call of the Cooldown    *)
(* Gate, running one after the other or at the same time, on a store that  *)
(* answers every request, over seconds and midnights.                      *)

EnvGate ==
    [users |-> {"u1"}, gets |-> {"ok"}, puts |-> {"ok"}, hist |-> TRUE,
     once |-> TRUE, budget |-> MaxOps,
     gaps |-> Gaps]

InitGate == InitRest /\ ready /\ InitUsed(InitDocs, {Null}, {Null})

NextGate ==
    \/ \E p \in Procs :
         \/ Call_check_and_update_cooldown(p, EnvGate)
         \/ gu_get(p, EnvGate)
         \/ su_put(p, EnvGate)
         \/ cd_now(p, EnvGate)
         \/ cd_ret(p, EnvGate)
    \/ Tick
    \/ Midnight

SpecGate == InitGate /\ [][NextGate]_vars

----------------------------------------------------------------------------
(* C13, under SpecGate.  Requests are numbered in the order they start,    *)
(* and tnow is the time the gate read at line 242: the admission time of   *)
(* a call that admits.                                                     *)

Admitted(s) == IsCooldown(s) /\ s.pc = "done" /\ s.ret = RetBool(TRUE)

C13_BothAdmitted ==
    /\ Admitted(ps[1]) /\ Admitted(ps[2])
    /\ ps[1].user = ps[2].user
    /\ ps[1].gap = ps[2].gap

C13_Apart ==
    \/ ps[2].tnow - ps[1].tnow >= ps[2].gap
    \/ ps[1].tnow - ps[2].tnow >= ps[1].gap

\* C13 as stated: on a reachable store, two requests of one user that the
\* gate both admits, handled one after the other or concurrently, have
\* admission times at least min_gap seconds apart.
C13_Original == C13_BothAdmitted => C13_Apart

\* C13 amended: the same for two requests whose gate calls do not overlap
\* (the second starts after the first has returned) and fall on the same
\* calendar day.
C13_MinimumSpacing ==
    (/\ C13_BothAdmitted
     /\ run.seq
     /\ ps[1].day0 = ps[2].day1) => C13_Apart

\* the second call admitted exactly min_gap seconds after the first
C13_Witness ==
    /\ C13_BothAdmitted
    /\ run.seq
    /\ ps[1].day0 = ps[2].day1
    /\ ps[2].gap = MaxGap
    /\ ps[2].tnow - ps[1].tnow = MaxGap

----------------------------------------------------------------------------
(* C14, under SpecSeq.                                                     *)

\* a call of the gate that has ended and whose get_usage yielded last_ts
\* 0.0 (line 243 was reached)
C14_Case ==
    /\ IsCooldown(ps[1])
    /\ Ended(ps[1])
    /\ ps[1].tnow # Null
    /\ ps[1].usage.last_ts = 0

\* C14 as stated: for every min_gap, a call of check_and_update_cooldown
\* whose get_usage yields last_ts 0.0 returns True.
C14_Original == C14_Case => ps[1].ret = RetBool(TRUE)

\* C14 amended: a call of check_and_update_cooldown whose get_usage yields
\* last_ts 0.0 (the user has no document yet, or a document without last_ts,
\* or the store is unconfigured or fails the read) does not reject when
\* min_gap is at most the current time in seconds: it goes on to set_usage
\* and returns True once set_usage has returned; when min_gap is more than
\* the current time it returns False and writes nothing.
C14_ZeroLastTsAdmits ==
    C14_Case =>
        IF ps[1].gap <= ps[1].tnow
        THEN /\ ps[1].ret # RetBool(FALSE)
             /\ ps[1].puts = (IF ready THEN 1 ELSE 0)
             /\ ps[1].pc = "done" => ps[1].ret = RetBool(TRUE)
             /\ ps[1].pc = "raised" => ready /\ ~ps[1].ok
        ELSE /\ ps[1].pc = "done"
             /\ ps[1].ret = RetBool(FALSE)
             /\ ps[1].puts = 0

\* a user that never requested before, asked with the largest min_gap below
\* the clock
C14_Witness ==
    /\ C14_Case
    /\ ready /\ ps[1].ok /\ ps[1].gets = 1
    /\ PreDoc(ps[1]) = NoDoc
    /\ ps[1].gap = MaxGap
    /\ ps[1].ret = RetBool(TRUE)

----------------------------------------------------------------------------
(* SpecStep: calls of increment_usage for one user, one at a time, on a    *)
(* store that may fail any request, over seconds, midnights and month      *)
(* ends.                                                                   *)

EnvStep ==
    [users |-> {"u1"}, gets |-> AllGets, puts |-> AllPuts, hist |-> TRUE,
     once |-> FALSE, budget |-> MaxOps,
     gaps |-> Gaps]

InitStep == InitRest /\ ready /\ InitUsed(InitDocs, {Null}, InitTotals)

NextStep ==
    \/ Call_increment_usage(1, EnvStep)
    \/ inc_get(1, EnvStep)
    \/ inc_put(1, EnvStep)
    \/ inc_ts_prep(1, EnvStep)
    \/ inc_ts(1, EnvStep)
    \/ inc_m_prep(1, EnvStep)
    \/ inc_mget(1, EnvStep)
    \/ inc_mput(1, EnvStep)
    \/ Tick
    \/ Midnight
    \/ MonthEnd

SpecStep == InitStep /\ [][NextStep]_vars

----------------------------------------------------------------------------
(* C16, under SpecStep.                                                    *)

IsIncrement(s) == s.op = "increment_usage"

\* the position that follows each position of increment_usage; a GET whose
\* payload is not JSON and a PUT that raises end the call
C16_Order(pc) ==
    CASE pc = "inc_get" -> {"inc_put", "raised"}
      [] pc = "inc_put" -> {"inc_ts_prep", "raised"}
      [] pc = "inc_ts_prep" -> {"inc_ts"}
      [] pc = "inc_ts" -> {"inc_m_prep", "raised"}
      [] pc = "inc_m_prep" -> {"inc_mget"}
      [] pc = "inc_mget" -> {"inc_mput", "raised"}
      [] pc = "inc_mput" -> {"done", "raised"}
      [] OTHER -> {}

\* the request moves on and its answer is the first failure of the call
C16_FailsNow(s, t) == s.pc # t.pc /\ s.ok /\ ~t.ok

\* one step of the program, seen from a running call of increment_usage
C16_Step(s, t) ==
    /\ s.pc # t.pc => t.pc \in C16_Order(s.pc)
    /\ s.pc \in {"inc_get", "inc_put", "inc_ts_prep", "inc_ts", "inc_m_prep"}
          => monthly' = monthly
    /\ s.pc \in {"inc_ts_prep", "inc_ts", "inc_m_prep", "inc_mget", "inc_mput"}
          => \A d \in Days :
                usage'[s.user][d].count = usage[s.user][d].count
    /\ s.pc \in {"inc_m_prep", "inc_mget", "inc_mput"} => usage' = usage
    /\ (s.pc = "inc_ts" /\ C16_FailsNow(s, t)) => usage' = usage
    /\ (s.pc = "inc_mput" /\ C16_FailsNow(s, t)) => monthly' = monthly

\* C16: increment_usage goes through (1) the read and the write of the
\* count, (2) the write of last_ts, (3) the read and the write of the
\* monthly total, in this order; once the count is written no later step
\* writes a count again (no rollback, no second write), a failed PUT of
\* last_ts leaves the document as it was and a failed PUT of the total
\* leaves the total as it was, whether the PUT is refused or raises.
C16_NoRollback ==
    [][(IsIncrement(ps[1]) /\ Running(ps[1])) => C16_Step(ps[1], ps'[1])]_vars

\* the count was written, the PUT of last_ts failed and the call went on to
\* write the monthly total
C16_Witness ==
    /\ IsIncrement(ps[1]) /\ ps[1].pc = "done"
    /\ ~ps[1].ok /\ ps[1].puts = 3
    /\ today = ps[1].day0 /\ thisMonth = ps[1].month0
    /\ Count(usage["u1"][today]) = Count(PreDoc(ps[1])) + 1
    /\ usage["u1"][today].last_ts = PreDoc(ps[1]).last_ts
    /\ usage["u1"][today].last_ts < StartTime
    /\ Total(monthly[thisMonth]) = Total(PreStore(ps[1])[3][thisMonth]) + 1

----------------------------------------------------------------------------
(* SpecIso: get_usage, set_usage, check_and_update_cooldown,               *)
(* increment_usage and reset_user_daily called for either of two users on  *)
(* a store that may fail any request and holds a document and a limit     *)
(* override of user u1.                                                    *)

EnvIso ==
    [users |-> Users, gets |-> AllGets, puts |-> AllPuts, hist |-> TRUE,
     once |-> FALSE, budget |-> MaxReqs,
     gaps |-> Gaps]

InitIso == InitRest /\ ready /\ InitUsed(InitDocs, InitLimits, InitTotals)

NextIso ==
    \/ Call_get_usage(1, EnvIso)
    \/ Call_set_usage(1, EnvIso)
    \/ Call_check_and_update_cooldown(1, EnvIso)
    \/ Call_increment_usage(1, EnvIso)
    \/ Call_reset_user_daily(1, EnvIso)
    \/ gu_get(1, EnvIso)
    \/ su_put(1, EnvIso)
    \/ cd_now(1, EnvIso)
    \/ cd_ret(1, EnvIso)
    \/ inc_get(1, EnvIso)
    \/ inc_put(1, EnvIso)
    \/ inc_ts_prep(1, EnvIso)
    \/ inc_ts(1, EnvIso)
    \/ inc_m_prep(1, EnvIso)
    \/ inc_mget(1, EnvIso)
    \/ inc_mput(1, EnvIso)
    \/ ru_put(1, EnvIso)
    \/ Tick
    \/ Midnight
    \/ MonthEnd

SpecIso == InitIso /\ [][NextIso]_vars

----------------------------------------------------------------------------
(* C20, under SpecIso.                                                     *)

\* C20: from the start of a call for user u, at every step of it and after
\* it, the DailyUsage documents of every other user and the limit
\* overrides of all users are what they were when the call started, and
\* the monthly totals too unless the call is increment_usage.
C20_PerUserIsolation ==
    LET s == ps[1] IN
    s.op # "none" =>
        /\ \A v \in Users \ {s.user} : usage[v] = PreStore(s)[1][v]
        /\ limits = PreStore(s)[2]
        /\ monthly # PreStore(s)[3] => IsIncrement(s)

\* a call for u2 has rewritten u2's document and left u1's, which holds a
\* count and a last_ts, and u1's limit override alone
C20_Witness ==
    LET s == ps[1] IN
    /\ s.op = "set_usage" /\ s.user = "u2" /\ s.pc = "done" /\ s.ok
    /\ usage["u2"] # PreStore(s)[1]["u2"]
    /\ usage["u1"][0] = [count |-> 1, last_ts |-> StartTime - 1]
    /\ limits["u1"] = MaxLimit

----------------------------------------------------------------------------
(* SpecTwo: MaxOps admit_and_record requests of one user, one after the    *)
(* other, and one reset_user_daily of that user at any moment, over        *)
(* seconds and midnights, on a store that fails at most one request of the *)
(* run, in any way.                                                        *)

NoFaultYet == \A p \in Procs : ps[p].ok /\ prev[p].ok

EnvTwo ==
    [users |-> {"u1"},
     gets |-> IF NoFaultYet THEN AllGets ELSE {"ok"},
     puts |-> IF NoFaultYet THEN AllPuts ELSE {"ok"},
     hist |-> TRUE, once |-> FALSE, budget |-> MaxOps + 1,
     gaps |-> Gaps]

InitTwo ==
    InitRest /\ InitUsed({NoDoc, ZeroUsage,
                          [count |-> 1, last_ts |-> StartTime - 1]},
                         {Null}, {Null})

\* the user sends a request, the first or the next one
RequestTwo ==
    /\ ps[1].n < MaxOps
    /\ Call_admit_and_record(1, EnvTwo)

\* the administrator resets the user's day, once, at any moment
ResetTwo ==
    /\ ps[2].pc = "idle"
    /\ Call_reset_user_daily(2, EnvTwo)

NextTwo ==
    \/ RequestTwo
    \/ ResetTwo
    \/ ru_put(2, EnvTwo)
    \/ gu_get(1, EnvTwo)
    \/ su_put(1, EnvTwo)
    \/ inc_get(1, EnvTwo)
    \/ inc_put(1, EnvTwo)
    \/ inc_ts_prep(1, EnvTwo)
    \/ inc_ts(1, EnvTwo)
    \/ inc_m_prep(1, EnvTwo)
    \/ inc_mget(1, EnvTwo)
    \/ inc_mput(1, EnvTwo)
    \/ gl_get(1, EnvTwo)
    \/ gm_get(1, EnvTwo)
    \/ cd_now(1, EnvTwo)
    \/ cd_ret(1, EnvTwo)
    \/ h_cd(1, EnvTwo)
    \/ h_lim(1, EnvTwo)
    \/ h_cnt(1, EnvTwo)
    \/ h_tot(1, EnvTwo)
    \/ h_gen(1, EnvTwo)
    \/ h_inc(1, EnvTwo)
    \/ Tick
    \/ Midnight

SpecTwo == InitTwo /\ [][NextTwo]_vars

----------------------------------------------------------------------------
(* C17, under SpecTwo.                                                     *)

\* the generation call of the request is about to start
C17_AtGeneration(s) == IsRequest(s) /\ s.pc = "h_gen"

\* a request whose generation failed, and the user's next request, which
\* came less than the cooldown after the first was admitted
C17_Retry ==
    /\ ready
    /\ IsRequest(prev[1]) /\ prev[1].pc = "done"
    /\ prev[1].ret = RetOutcome("GenerationFailed")
    /\ IsRequest(ps[1]) /\ ps[1].pc = "done"
    /\ ps[1].user = prev[1].user
    /\ ps[1].tnow - prev[1].tnow < COOLDOWN_SECONDS

\* C17 as stated: when the generation call of a request starts the stored
\* last_ts is the time the gate admitted the request, and the next request
\* of the user less than min_gap seconds after a request whose generation
\* failed is cooldown-rejected.
C17_Original ==
    /\ (ready /\ C17_AtGeneration(ps[1])) =>
           usage[ps[1].user][today].last_ts = ps[1].tnow
    /\ C17_Retry => ps[1].ret = RetOutcome("CooldownRejected")

\* no operation but the user's own requests has run on the user's document
C17_Alone == ps[2].pc = "idle"

\* C17 amended: the same, when the store is configured, every store request
\* of the requests succeeds, no other operation runs on the user's document
\* from the start of the first request to the end of the next, and no
\* midnight falls between the start of the first request and the generation
\* call, or the end of the next request.
C17_StampBeforeGeneration ==
    /\ (/\ ready /\ C17_AtGeneration(ps[1])
        /\ ps[1].ok /\ today = ps[1].day0
        /\ C17_Alone) =>
           usage[ps[1].user][today].last_ts = ps[1].tnow
    /\ (/\ C17_Retry
        /\ prev[1].ok /\ ps[1].ok
        /\ prev[1].day0 = ps[1].day1
        /\ C17_Alone) =>
           ps[1].ret = RetOutcome("CooldownRejected")

C17_Witness ==
    /\ C17_Retry
    /\ C17_Alone
    /\ prev[1].ok /\ ps[1].ok
    /\ prev[1].day0 = ps[1].day1
    /\ prev[1].gets = 4
    /\ ps[1].tnow - prev[1].tnow = COOLDOWN_SECONDS - 1
    /\ ps[1].ret = RetOutcome("CooldownRejected")

----------------------------------------------------------------------------------------------------------------------------------------------------
(* SpecQuota: admit_and_record requests of one user on one day, at most    *)
(* MaxInFlight of them in flight at a time, and one reset_user_daily of    *)
(* that user at any moment, MaxProcs operations in all, over seconds, on a *)
(* store that is configured or not and fails at most one request of the    *)
(* run, in any way.                                                        *)

EnvQuota ==
    [users |-> {"u1"},
     gets |-> IF NoFaultYet THEN AllGets ELSE {"ok"},
     puts |-> IF NoFaultYet THEN AllPuts ELSE {"ok"},
     hist |-> FALSE, once |-> TRUE, budget |-> MaxProcs,
     gaps |-> Gaps]

InitQuota == InitRest /\ InitUsed({NoDoc}, {MaxLimit}, {Null})

InFlight == {p \in Procs : IsRequest(ps[p]) /\ Running(ps[p])}

\* a request arrives while fewer than MaxInFlight are being handled
Arrive(p, C) ==
    /\ Cardinality(InFlight) < MaxInFlight
    /\ Call_admit_and_record(p, C)

NoReset == \A p \in Procs : ps[p].op # "reset_user_daily"

\* the administrator resets the user's day, once, at any moment
ResetQuota(p, C) ==
    /\ NoReset
    /\ Call_reset_user_daily(p, C)

NextQuota ==
    \/ Tick
    \/ \E p \in Procs :
         \/ Arrive(p, EnvQuota)
         \/ ResetQuota(p, EnvQuota)
         \/ ru_put(p, EnvQuota)
         \/ gu_get(p, EnvQuota)
         \/ su_put(p, EnvQuota)
         \/ inc_get(p, EnvQuota)
         \/ inc_put(p, EnvQuota)
         \/ inc_ts_prep(p, EnvQuota)
         \/ inc_ts(p, EnvQuota)
         \/ inc_m_prep(p, EnvQuota)
         \/ inc_mget(p, EnvQuota)
         \/ inc_mput(p, EnvQuota)
         \/ gl_get(p, EnvQuota)
         \/ gm_get(p, EnvQuota)
         \/ cd_now(p, EnvQuota)
         \/ cd_ret(p, EnvQuota)
         \/ h_cd(p, EnvQuota)
         \/ h_lim(p, EnvQuota)
         \/ h_cnt(p, EnvQuota)
         \/ h_tot(p, EnvQuota)
         \/ h_gen(p, EnvQuota)
         \/ h_inc(p, EnvQuota)

SpecQuota == InitQuota /\ [][NextQuota]_vars

----------------------------------------------------------------------------
(* C15, under SpecQuota.  Every request of the run is of user u1 and on    *)
(* the day the run starts; at most MaxInFlight are in flight at a time.    *)

DailyLimit == LimitOf(limits["u1"])

\* the requests the Quota Gate has admitted
QuotaPassed == {p \in Procs : QuotaAdmitted(ps[p])}

\* the admitted requests whose generation succeeded, and among them the
\* ones in flight whose PUT of count (line 127) is still to come
Generated == {p \in Procs : IsRequest(ps[p]) /\ ps[p].gen = "image"}
Pending == {p \in Generated : ps[p].pc \in {"inc_get", "inc_put"}}

\* the store is configured and has answered every request so far, and no
\* reset has run
C15_Undisturbed == ready /\ NoReset /\ \A p \in Procs : ps[p].ok

====
